---------------------------- MODULE Spec2Model ----------------------------
(***************************************************************************)
(* Model of the service-entry report job (src/run.py): the run guard       *)
(* (lock marker), the due-today decider, the output tracker (final CSV,    *)
(* temp file, done marker per category) and the orchestrator               *)
(* ServiceEntryRunner.run, one action per step of run().                   *)
(*                                                                         *)
(* Spec      : runs of the job one after the other on one calendar day     *)
(*             (the external scheduler starts a run when none is live).    *)
(* SpecConc  : two orchestrator processes whose steps interleave.          *)
(* SpecFn    : the pure date functions applied to every date of a range.   *)
(***************************************************************************)
EXTENDS Integers, Sequences, FiniteSets, TLC

\* ------------------------------------------------------------------ bounds
\* runs started in one behaviour
MaxRuns == 3
\* rows a query may return: 0..MaxRows
MaxRows == 1
\* run dates: RunDays consecutive days starting at RunStart
RunDays == 32
\* run dates and runs started when two processes interleave
ConcDays == 2
MaxConcRuns == 2
\* dates the pure functions are applied to: NumYears years from BaseYear
BaseYear == 2024
NumYears == 3

Procs == {1, 2}
Cats == <<"weekly", "monthly">>
CatSet == {"weekly", "monthly"}

\* ------------------------------------------------------- calendar (datetime)
\* datetime.date of the standard library, as run.py uses it.
IsLeap(y) == (y % 4 = 0) /\ ((y % 100 # 0) \/ (y % 400 = 0))

DaysInMonth(y, m) ==
    IF m = 2 THEN (IF IsLeap(y) THEN 29 ELSE 28)
    ELSE IF m \in {4, 6, 9, 11} THEN 30 ELSE 31

RECURSIVE DaysBeforeMonth(_, _)
DaysBeforeMonth(y, m) ==
    IF m = 1 THEN 0 ELSE DaysBeforeMonth(y, m - 1) + DaysInMonth(y, m - 1)

DaysBeforeYear(y) ==
    (y - 1) * 365 + ((y - 1) \div 4) - ((y - 1) \div 100) + ((y - 1) \div 400)

\* date(y, m, d)
Date(y, m, d) == [year |-> y, month |-> m, day |-> d]

\* date.toordinal(): 0001-01-01 is day 1
ToOrdinal(dt) == DaysBeforeYear(dt.year) + DaysBeforeMonth(dt.year, dt.month) + dt.day

\* date.weekday(): Monday is 0
Weekday(dt) == (ToOrdinal(dt) + 6) % 7

\* the dates of the years BaseYear-1 .. BaseYear+NumYears
Calendar ==
    { Date(y, m, d) : y \in (BaseYear - 1)..(BaseYear + NumYears), m \in 1..12, d \in 1..31 }

ValidDates == { dt \in Calendar : dt.day <= DaysInMonth(dt.year, dt.month) }

\* date.fromordinal(n): the year, then the month, then the day that hold day n
FromOrdinal(n) ==
    LET y == CHOOSE yy \in (BaseYear - 1)..(BaseYear + NumYears) :
                 DaysBeforeYear(yy) < n /\ n <= DaysBeforeYear(yy + 1)
        r == n - DaysBeforeYear(y)
        m == CHOOSE mm \in 1..12 :
                 DaysBeforeMonth(y, mm) < r /\ r <= DaysBeforeMonth(y, mm) + DaysInMonth(y, mm)
    IN Date(y, m, r - DaysBeforeMonth(y, m))

\* dt - timedelta(days=n)
MinusDays(dt, n) == FromOrdinal(ToOrdinal(dt) - n)

\* dt + timedelta(days=n)
PlusDays(dt, n) == FromOrdinal(ToOrdinal(dt) + n)

\* first run date of the run specifications (a Sunday; the next day is a
\* Monday that is the 1st of its month)
RunStart == Date(2025, 8, 31)

RunDates == { PlusDays(RunStart, k) : k \in 0..(RunDays - 1) }

ConcDates == { PlusDays(RunStart, k) : k \in 0..(ConcDays - 1) }

FnDates == { dt \in ValidDates : dt.year \in BaseYear..(BaseYear + NumYears - 1) }

\* ------------------------------------------------------------ file contents
Absent == [kind |-> "absent", rows |-> 0]
Partial == [kind |-> "partial", rows |-> 0]
Complete(n) == [kind |-> "complete", rows |-> n]

Exists(f) == f.kind # "absent"


\* ------------------------------------------------------------------- state
VARIABLES
    today,             \* EnvConfig.today
    year_start_month,  \* EnvConfig.year_start_month
    lock,              \* the lock marker ses.lock exists
    csv,               \* final CSV of today, per category
    tmp,               \* temp file of today, per category
    done,              \* done marker of today exists, per category
    subdirs,           \* output subdirectories that exist
    emails,            \* messages handed to the SMTP server, in order
    runs,              \* runs started so far
    pc,                \* per process: position in run()
    due,               \* per process: (weekly_due, monthly_due)
    conn,              \* per process: OracleClient.conn is "none", "open", "closed"
    idx,               \* per process: category block being executed (1 weekly, 2 monthly)
    df,                \* per process: rows of the current query result
    win,               \* per process: window of the current category
    attachments,       \* per process: list attachments
    sections,          \* per process: list sections
    outcome,           \* per process: how run() ended
    failedAt,          \* per process: the call that raised
    exit_status,       \* per process: exit status of the process
    runId,             \* per process: number of the run it executes
    created,           \* per process: this run created the lock marker
    queried,           \* per process: categories this run passed to db.query
    wrote,             \* per process: categories whose final CSV this run replaced
    prev,              \* per process: summary of its previous run
    raced,             \* some lock check fell between another process's check and create
    ret                \* result of the last pure function applied (SpecFn)

fsVars == <<lock, csv, tmp, done, subdirs>>
cfgVars == <<today, year_start_month>>
localVars == <<due, conn, idx, df, win, attachments, sections>>
endVars == <<outcome, failedAt, exit_status>>
histVars == <<runId, created, queried, wrote, prev, raced>>
vars == <<cfgVars, fsVars, emails, runs, pc, localVars, endVars, histVars, ret>>

NoDate == Date(0, 0, 0)
NoWindow == <<NoDate, NoDate>>
NoPrev == [outcome |-> "none", failedAt |-> "none", exit_status |-> 0,
           wrote |-> {}, queried |-> {}]
NoRet == [fn |-> "none", arg |-> NoDate, val |-> <<>>]

\* state of a process before its first run
InitProcs ==
    /\ pc = [p \in Procs |-> "idle"]
    /\ due = [p \in Procs |-> <<FALSE, FALSE>>]
    /\ conn = [p \in Procs |-> "none"]
    /\ idx = [p \in Procs |-> 1]
    /\ df = [p \in Procs |-> 0]
    /\ win = [p \in Procs |-> NoWindow]
    /\ attachments = [p \in Procs |-> <<>>]
    /\ sections = [p \in Procs |-> <<>>]
    /\ outcome = [p \in Procs |-> "none"]
    /\ failedAt = [p \in Procs |-> "none"]
    /\ exit_status = [p \in Procs |-> 0]
    /\ runId = [p \in Procs |-> 0]
    /\ created = [p \in Procs |-> FALSE]
    /\ queried = [p \in Procs |-> {}]
    /\ wrote = [p \in Procs |-> {}]
    /\ prev = [p \in Procs |-> NoPrev]
    /\ raced = FALSE

\* a day on which nothing has been produced yet and no run is live
InitFiles ==
    /\ lock = FALSE
    /\ csv = [c \in CatSet |-> Absent]
    /\ tmp = [c \in CatSet |-> Absent]
    /\ done = [c \in CatSet |-> FALSE]
    /\ subdirs = {}
    /\ emails = <<>>
    /\ runs = 0

Init ==
    /\ today \in RunDates
    /\ year_start_month \in 1..12
    /\ InitFiles
    /\ InitProcs
    /\ ret = NoRet

\* -------------------------------------------------------- pure functions
\* what_is_due with isoweekday()'s numbering taken for weekday()'s
what_is_due_iso(t) == <<Weekday(t) = 1, t.day = 1>>

\* ServiceEntryRunner.what_is_due
what_is_due(t) == <<Weekday(t) = 0, t.day = 1>>

\* a weekly window that reaches back eight days
weekly_window_8(t) == <<MinusDays(t, 8), t>>

\* ServiceEntryRunner.weekly_window
weekly_window(t) == <<MinusDays(t, 7), t>>

\* ServiceEntryRunner.monthly_window
monthly_window(t, ysm) == <<Date(t.year, ysm, 1), t>>

\* the window of category c, as run() computes it
window_of(c, t, ysm) == IF c = "weekly" THEN weekly_window(t) ELSE monthly_window(t, ysm)

\* should_skip that never reports a category as done
should_skip_never(final, marker) == FALSE

\* should_skip that looks at the done marker only
should_skip_marker_only(final, marker) == marker

\* FileManager.should_skip, on the files of one category
should_skip(final, marker) == Exists(final) \/ marker

\* strftime("%d %b %Y") of a midnight datetime
MonthAbbr ==
    <<"Jan", "Feb", "Mar", "Apr", "May", "Jun", "Jul", "Aug", "Sep", "Oct", "Nov", "Dec">>

FmtDate(dt) == <<dt.day, MonthAbbr[dt.month], dt.year>>

\* strftime("%b %Y")
FmtMonth(dt) == <<MonthAbbr[dt.month], dt.year>>

\* the section run() appends for category c
section_of(c, w, rows, t) ==
    [title |-> IF c = "weekly" THEN <<"Weekly">>
               ELSE <<"Monthly (YTD through ", FmtMonth(MinusDays([t EXCEPT !.day = 1], 1)), ")">>,
     window |-> <<FmtDate(w[1]), FmtDate(w[2])>>,
     rows |-> rows]

\* subject built with the weekly branch tested before the combined one
subject_of_weekly_first(d) ==
    <<"Service Entry Sheet Report">> \o
    (IF d[1] THEN <<" - Weekly">>
     ELSE IF d[1] /\ d[2] THEN <<" - Weekly & Monthly">>
     ELSE IF d[2] THEN <<" - Monthly">>
     ELSE <<>>)

\* the subject line run() builds: the base subject, then the suffix run() adds
\* (the dash of the source is written " - ")
subject_of(d) ==
    <<"Service Entry Sheet Report">> \o
    (IF d[1] /\ d[2] THEN <<" - Weekly & Monthly">>
     ELSE IF d[1] THEN <<" - Weekly">>
     ELSE IF d[2] THEN <<" - Monthly">>
     ELSE <<>>)

\* exit status of the Python process: 0 when run() returns, 1 when an
\* exception leaves it uncaught
ExitStatus(o) == IF o = "error" THEN 1 ELSE 0

\* ------------------------------------------------------------ run(): steps
Live(p) == pc[p] \notin {"idle", "done"}

\* run() returns (o names the return statement) or raises (o = "error", f the call)
Finish(p, o, f) ==
    /\ pc' = [pc EXCEPT ![p] = "done"]
    /\ outcome' = [outcome EXCEPT ![p] = o]
    /\ failedAt' = [failedAt EXCEPT ![p] = f]
    /\ exit_status' = [exit_status EXCEPT ![p] = ExitStatus(o)]

Goto(p, l) ==
    /\ pc' = [pc EXCEPT ![p] = l]
    /\ UNCHANGED endVars

\* entry point: a new process builds EnvConfig and ServiceEntryRunner and calls run()
StartRun(p) ==
    /\ ~Live(p)
    /\ runs < MaxRuns
    /\ runs' = runs + 1
    /\ pc' = [pc EXCEPT ![p] = "check"]
    /\ due' = [due EXCEPT ![p] = <<FALSE, FALSE>>]
    /\ conn' = [conn EXCEPT ![p] = "none"]
    /\ idx' = [idx EXCEPT ![p] = 1]
    /\ df' = [df EXCEPT ![p] = 0]
    /\ win' = [win EXCEPT ![p] = NoWindow]
    /\ attachments' = [attachments EXCEPT ![p] = <<>>]
    /\ sections' = [sections EXCEPT ![p] = <<>>]
    /\ outcome' = [outcome EXCEPT ![p] = "none"]
    /\ failedAt' = [failedAt EXCEPT ![p] = "none"]
    /\ exit_status' = [exit_status EXCEPT ![p] = 0]
    /\ runId' = [runId EXCEPT ![p] = runs + 1]
    /\ created' = [created EXCEPT ![p] = FALSE]
    /\ queried' = [queried EXCEPT ![p] = {}]
    /\ wrote' = [wrote EXCEPT ![p] = {}]
    /\ prev' = [prev EXCEPT ![p] =
                  IF pc[p] = "done"
                  THEN [outcome |-> outcome[p], failedAt |-> failedAt[p],
                        exit_status |-> exit_status[p],
                        wrote |-> wrote[p], queried |-> queried[p]]
                  ELSE @]
    /\ UNCHANGED <<cfgVars, fsVars, emails, raced, ret>>

\* the lock check without its return: the run goes on whatever it finds
CheckLock_no_return(p) ==
    /\ pc[p] = "check"
    /\ Goto(p, "create")
    /\ raced' = (raced \/ \E q \in Procs \ {p} : pc[q] = "create")
    /\ UNCHANGED <<cfgVars, fsVars, emails, runs, localVars,
                   runId, created, queried, wrote, prev, ret>>

\* a lock check that takes over a marker it finds: removes it and goes on
CheckLock_takeover(p) ==
    /\ pc[p] = "check"
    /\ lock' = FALSE
    /\ Goto(p, "create")
    /\ raced' = (raced \/ \E q \in Procs \ {p} : pc[q] = "create")
    /\ UNCHANGED <<cfgVars, csv, tmp, done, subdirs, emails, runs, localVars,
                   runId, created, queried, wrote, prev, ret>>

\* if os.path.exists(lock_file): return
CheckLock(p) ==
    /\ pc[p] = "check"
    /\ IF lock
       THEN Finish(p, "locked", "none") /\ UNCHANGED raced
       ELSE /\ Goto(p, "create")
            /\ raced' = (raced \/ \E q \in Procs \ {p} : pc[q] = "create")
    /\ UNCHANGED <<cfgVars, fsVars, emails, runs, localVars,
                   runId, created, queried, wrote, prev, ret>>

\* open(lock_file, "w").close(); weekly_due, monthly_due = what_is_due()
CreateLock(p) ==
    /\ pc[p] = "create"
    /\ lock' = TRUE
    /\ created' = [created EXCEPT ![p] = TRUE]
    /\ due' = [due EXCEPT ![p] = what_is_due(today)]
    /\ Goto(p, IF due'[p] = <<FALSE, FALSE>> THEN "nodue" ELSE "connect")
    /\ UNCHANGED <<cfgVars, csv, tmp, done, subdirs, emails, runs,
                   conn, idx, df, win, attachments, sections,
                   runId, queried, wrote, prev, raced, ret>>

\* an exit path that forgets os.remove(lock_file)
RemoveLock_forgotten(p, o) == lock' = lock /\ Finish(p, o, "none")

\* os.remove(lock_file): FileNotFoundError when the marker is gone
RemoveLock(p, o) ==
    IF lock
    THEN lock' = FALSE /\ Finish(p, o, "none")
    ELSE lock' = lock /\ Finish(p, "error", "remove")

\* nothing due: os.remove(lock_file); return
ReleaseNothingDue(p) ==
    /\ pc[p] = "nodue"
    /\ RemoveLock(p, "nodue")
    /\ UNCHANGED <<cfgVars, csv, tmp, done, subdirs, emails, runs, localVars, histVars, ret>>

\* a connect whose exception is logged and not raised again
Connect_swallow(p) ==
    /\ pc[p] = "connect"
    /\ \/ conn' = [conn EXCEPT ![p] = "open"] /\ Goto(p, "read_sql")
       \/ conn' = conn /\ Goto(p, "read_sql")
    /\ UNCHANGED <<cfgVars, fsVars, emails, runs, due, idx, df, win,
                   attachments, sections, histVars, ret>>

\* self.db.connect(): the exception is logged and raised again
Connect(p) ==
    /\ pc[p] = "connect"
    /\ \/ conn' = [conn EXCEPT ![p] = "open"] /\ Goto(p, "read_sql")
       \/ conn' = conn /\ Finish(p, "error", "connect")
    /\ UNCHANGED <<cfgVars, fsVars, emails, runs, due, idx, df, win,
                   attachments, sections, histVars, ret>>

\* with open(sql_path) as f: sql_text = f.read(); attachments, sections = [], []
ReadSql(p) ==
    /\ pc[p] = "read_sql"
    /\ \/ Goto(p, "decide")
       \/ Finish(p, "error", "sql")
    /\ UNCHANGED <<cfgVars, fsVars, emails, runs, localVars, histVars, ret>>

\* if <category>_due and not should_skip(...): the block is entered or passed over.
\* should_skip is called only when the category is due (and short-circuits);
\* its path helpers create the category's subdirectory.
Decide(p) ==
    /\ pc[p] = "decide"
    /\ idx[p] <= Len(Cats)
    /\ LET c == Cats[idx[p]]
       IN IF due[p][idx[p]]
          THEN /\ subdirs' = subdirs \cup {c}
               /\ IF should_skip(csv[c], done[c])
                  THEN idx' = [idx EXCEPT ![p] = @ + 1] /\ Goto(p, "decide")
                  ELSE idx' = idx /\ Goto(p, "query")
          ELSE /\ subdirs' = subdirs
               /\ idx' = [idx EXCEPT ![p] = @ + 1]
               /\ Goto(p, "decide")
    /\ UNCHANGED <<cfgVars, lock, csv, tmp, done, emails, runs, due, conn, df, win,
                   attachments, sections, histVars, ret>>

\* ws, we = <category>_window(); df = db.query(sql_text, {start_date_ts, end_date_ts})
Query(p) ==
    /\ pc[p] = "query"
    /\ LET c == Cats[idx[p]]
       IN /\ win' = [win EXCEPT ![p] = window_of(c, today, year_start_month)]
          /\ queried' = [queried EXCEPT ![p] = @ \cup {c}]
          /\ \/ \E n \in 0..MaxRows : df' = [df EXCEPT ![p] = n] /\ Goto(p, "to_csv")
             \/ df' = df /\ Finish(p, "error", "query")
    /\ UNCHANGED <<cfgVars, fsVars, emails, runs, due, conn, idx, attachments, sections,
                   runId, created, wrote, prev, raced, ret>>

\* write_csv without the temp file: df.to_csv(final, index=False)
ToCsv_direct(p) ==
    /\ pc[p] = "to_csv"
    /\ LET c == Cats[idx[p]]
       IN /\ subdirs' = subdirs \cup {c}
          /\ \/ csv' = [csv EXCEPT ![c] = Complete(df[p])] /\ Goto(p, "replace")
             \/ /\ \E f \in {csv[c], Partial} : csv' = [csv EXCEPT ![c] = f]
                /\ Finish(p, "error", "write")
    /\ UNCHANGED <<cfgVars, lock, tmp, done, emails, runs, localVars, histVars, ret>>

\* write_csv: df.to_csv(temp, index=False); a failure may leave a partial temp file
ToCsv(p) ==
    /\ pc[p] = "to_csv"
    /\ LET c == Cats[idx[p]]
       IN /\ subdirs' = subdirs \cup {c}
          /\ \/ tmp' = [tmp EXCEPT ![c] = Complete(df[p])] /\ Goto(p, "replace")
             \/ /\ \E f \in {tmp[c], Partial} : tmp' = [tmp EXCEPT ![c] = f]
                /\ Finish(p, "error", "write")
    /\ UNCHANGED <<cfgVars, lock, csv, done, emails, runs, localVars, histVars, ret>>

\* a write_csv that goes on to the done marker when os.replace has failed
Replace_unchecked(p) ==
    /\ pc[p] = "replace"
    /\ LET c == Cats[idx[p]]
       IN \/ /\ Exists(tmp[c])
             /\ csv' = [csv EXCEPT ![c] = tmp[c]]
             /\ tmp' = [tmp EXCEPT ![c] = Absent]
             /\ wrote' = [wrote EXCEPT ![p] = @ \cup {c}]
             /\ Goto(p, "marker")
          \/ /\ UNCHANGED <<csv, tmp, wrote>>
             /\ Goto(p, "marker")
    /\ UNCHANGED <<cfgVars, lock, done, subdirs, emails, runs, localVars,
                   runId, created, queried, prev, raced, ret>>

\* write_csv: os.replace(temp, final)
Replace(p) ==
    /\ pc[p] = "replace"
    /\ LET c == Cats[idx[p]]
       IN \/ /\ Exists(tmp[c])
             /\ csv' = [csv EXCEPT ![c] = tmp[c]]
             /\ tmp' = [tmp EXCEPT ![c] = Absent]
             /\ wrote' = [wrote EXCEPT ![p] = @ \cup {c}]
             /\ Goto(p, "marker")
          \/ /\ UNCHANGED <<csv, tmp, wrote>>
             /\ Finish(p, "error", "write")
    /\ UNCHANGED <<cfgVars, lock, done, subdirs, emails, runs, localVars,
                   runId, created, queried, prev, raced, ret>>

\* a run() that appends the attachment and forgets the section
Marker_no_section(p) ==
    /\ pc[p] = "marker"
    /\ LET c == Cats[idx[p]]
       IN \/ /\ done' = [done EXCEPT ![c] = TRUE]
             /\ attachments' = [attachments EXCEPT ![p] = Append(@, c)]
             /\ sections' = sections
             /\ idx' = [idx EXCEPT ![p] = @ + 1]
             /\ Goto(p, "decide")
          \/ /\ \E m \in {done[c], TRUE} : done' = [done EXCEPT ![c] = m]
             /\ UNCHANGED <<attachments, sections, idx>>
             /\ Finish(p, "error", "write")
    /\ UNCHANGED <<cfgVars, lock, csv, tmp, subdirs, emails, runs, due, conn, df, win,
                   histVars, ret>>

\* write_csv: open(done_marker, "w").write("done"); return final;
\* run(): attachments.append(...); sections.append({...})
Marker(p) ==
    /\ pc[p] = "marker"
    /\ LET c == Cats[idx[p]]
       IN \/ /\ done' = [done EXCEPT ![c] = TRUE]
             /\ attachments' = [attachments EXCEPT ![p] = Append(@, c)]
             /\ sections' = [sections EXCEPT ![p] = Append(@, section_of(c, win[p], df[p], today))]
             /\ idx' = [idx EXCEPT ![p] = @ + 1]
             /\ Goto(p, "decide")
          \/ /\ \E m \in {done[c], TRUE} : done' = [done EXCEPT ![c] = m]
             /\ UNCHANGED <<attachments, sections, idx>>
             /\ Finish(p, "error", "write")
    /\ UNCHANGED <<cfgVars, lock, csv, tmp, subdirs, emails, runs, due, conn, df, win,
                   histVars, ret>>

\* if not attachments: os.remove(lock_file); return
NothingGenerated(p) ==
    /\ pc[p] = "decide"
    /\ idx[p] > Len(Cats)
    /\ attachments[p] = <<>>
    /\ RemoveLock(p, "nothing")
    /\ UNCHANGED <<cfgVars, csv, tmp, done, subdirs, emails, runs, localVars, histVars, ret>>

\* a send that takes back the run's files when the transport fails
Send_rollback(p) ==
    /\ pc[p] = "decide"
    /\ idx[p] > Len(Cats)
    /\ attachments[p] # <<>>
    /\ \/ /\ emails' = Append(emails, [subject |-> subject_of(due[p]),
                                       sections |-> sections[p],
                                       attachments |-> [i \in 1..Len(attachments[p]) |->
                                                          [name |-> attachments[p][i],
                                                           data |-> csv[attachments[p][i]]]],
                                       run |-> runId[p]])
          /\ UNCHANGED <<csv, done>>
          /\ Goto(p, "close")
       \/ /\ emails' = emails
          /\ csv' = [c \in CatSet |-> IF c \in wrote[p] THEN Absent ELSE csv[c]]
          /\ done' = [c \in CatSet |-> IF c \in wrote[p] THEN FALSE ELSE done[c]]
          /\ Finish(p, "error", "send")
    /\ UNCHANGED <<cfgVars, lock, tmp, subdirs, runs, localVars, histVars, ret>>

\* subject, build_body, self.email.send(subject, text_body, html_body, attachments)
Send(p) ==
    /\ pc[p] = "decide"
    /\ idx[p] > Len(Cats)
    /\ attachments[p] # <<>>
    /\ \/ /\ emails' = Append(emails, [subject |-> subject_of(due[p]),
                                       sections |-> sections[p],
                                       attachments |-> [i \in 1..Len(attachments[p]) |->
                                                          [name |-> attachments[p][i],
                                                           data |-> csv[attachments[p][i]]]],
                                       run |-> runId[p]])
          /\ Goto(p, "close")
       \/ emails' = emails /\ Finish(p, "error", "send")
    /\ UNCHANGED <<cfgVars, fsVars, runs, localVars, histVars, ret>>

\* self.db.close(); if os.path.exists(lock_file):
Close(p) ==
    /\ pc[p] = "close"
    /\ conn' = [conn EXCEPT ![p] = "closed"]
    /\ IF lock THEN Goto(p, "release") ELSE Finish(p, "success", "none")
    /\ UNCHANGED <<cfgVars, fsVars, emails, runs, due, idx, df, win, attachments, sections,
                   histVars, ret>>

\* os.remove(lock_file); "Run completed successfully"
Release(p) ==
    /\ pc[p] = "release"
    /\ RemoveLock(p, "success")
    /\ UNCHANGED <<cfgVars, csv, tmp, done, subdirs, emails, runs, localVars, histVars, ret>>

\* an operator deletes a stale lock marker by hand while no run is live
ManualUnlock ==
    /\ lock
    /\ \A p \in Procs : ~Live(p)
    /\ lock' = FALSE
    /\ UNCHANGED <<cfgVars, csv, tmp, done, subdirs, emails, runs, pc, localVars, endVars,
                   histVars, ret>>

Step(p) ==
    \/ CheckLock(p)
    \/ CreateLock(p)
    \/ ReleaseNothingDue(p)
    \/ Connect(p)
    \/ ReadSql(p)
    \/ Decide(p)
    \/ Query(p)
    \/ ToCsv(p)
    \/ Replace(p)
    \/ Marker(p)
    \/ NothingGenerated(p)
    \/ Send(p)
    \/ Close(p)
    \/ Release(p)

\* runs one after the other, as the external scheduler starts them
Next ==
    \/ StartRun(1)
    \/ Step(1)
    \/ ManualUnlock

Spec == Init /\ [][Next]_vars

\* two orchestrator processes, their steps interleaved; YEAR_START_MONTH is
\* left at its default
InitConc ==
    /\ today \in ConcDates
    /\ year_start_month = 1
    /\ InitFiles
    /\ InitProcs
    /\ ret = NoRet

NextConc ==
    \/ \E p \in Procs : runs < MaxConcRuns /\ StartRun(p)
    \/ \E p \in Procs : Step(p)
    \/ ManualUnlock

SpecConc == InitConc /\ [][NextConc]_vars

\* ------------------------------------------------ crashes, downstream deletion
\* The process is killed at any point of run(). A kill during df.to_csv may
\* leave a partial temp file, one during the marker's open/write may leave the
\* marker; the lock marker stays.
Crash(p) ==
    /\ Live(p)
    /\ pc' = [pc EXCEPT ![p] = "done"]
    /\ outcome' = [outcome EXCEPT ![p] = "crashed"]
    /\ failedAt' = [failedAt EXCEPT ![p] = pc[p]]
    /\ exit_status' = [exit_status EXCEPT ![p] = 137]
    /\ IF pc[p] = "to_csv"
       THEN /\ \E f \in {tmp[Cats[idx[p]]], Partial} : tmp' = [tmp EXCEPT ![Cats[idx[p]]] = f]
            /\ done' = done
       ELSE IF pc[p] = "marker"
       THEN /\ \E m \in {done[Cats[idx[p]]], TRUE} : done' = [done EXCEPT ![Cats[idx[p]]] = m]
            /\ tmp' = tmp
       ELSE UNCHANGED <<tmp, done>>
    /\ UNCHANGED <<cfgVars, lock, csv, subdirs, emails, runs, localVars, histVars, ret>>

\* a final CSV is deleted downstream while no run is live; its marker stays
DeleteCsv(c) ==
    /\ Exists(csv[c])
    /\ \A p \in Procs : ~Live(p)
    /\ csv' = [csv EXCEPT ![c] = Absent]
    /\ UNCHANGED <<cfgVars, lock, tmp, done, subdirs, emails, runs, pc, localVars, endVars,
                   histVars, ret>>

\* runs one after the other, with crashes and downstream deletion;
\* YEAR_START_MONTH is left at its default
InitEnv ==
    /\ today \in RunDates
    /\ year_start_month = 1
    /\ InitFiles
    /\ InitProcs
    /\ ret = NoRet

NextEnv ==
    \/ StartRun(1)
    \/ Step(1)
    \/ ManualUnlock
    \/ Crash(1)
    \/ \E c \in CatSet : DeleteCsv(c)

SpecEnv == InitEnv /\ [][NextEnv]_vars

\* -------------------------------------------- the pure functions on every date
\* ServiceEntryRunner(cfg).what_is_due() for a configuration of any date
ApplyWhatIsDue ==
    /\ ret.fn # "what_is_due"
    /\ ret' = [fn |-> "what_is_due", arg |-> today, val |-> what_is_due(today)]
    /\ UNCHANGED <<cfgVars, fsVars, emails, runs, pc, localVars, endVars, histVars>>

InitFn ==
    /\ today \in FnDates
    /\ year_start_month \in 1..12
    /\ InitFiles
    /\ InitProcs
    /\ ret = NoRet

NextFn == ApplyWhatIsDue

SpecFn == InitFn /\ [][NextFn]_vars

\* ------------------------------------------- the windows on every due date
\* run() calls weekly_window() / monthly_window() on a day the category is due
ApplyWeeklyWindow ==
    /\ ret.fn = "none"
    /\ what_is_due(today)[1]
    /\ ret' = [fn |-> "weekly_window", arg |-> today, val |-> weekly_window(today)]
    /\ UNCHANGED <<cfgVars, fsVars, emails, runs, pc, localVars, endVars, histVars>>

ApplyMonthlyWindow ==
    /\ ret.fn = "none"
    /\ what_is_due(today)[2]
    /\ ret' = [fn |-> "monthly_window", arg |-> today,
               val |-> monthly_window(today, year_start_month)]
    /\ UNCHANGED <<cfgVars, fsVars, emails, runs, pc, localVars, endVars, histVars>>

NextWin == ApplyWeeklyWindow \/ ApplyMonthlyWindow

SpecWin == InitFn /\ [][NextWin]_vars

\* ----------------------------------------------------- compute_dates(mode)
\* A datetime: a date and the time of day in seconds after midnight.
DateTime(d, t) == [date |-> d, tod |-> t]

NoDateTime == DateTime(NoDate, 0)

\* times of day datetime.now() is taken at
TimesOfDay == {0, 30600, 86399}

\* now.replace(hour=0, minute=0, second=0, microsecond=0)
Midnight(now) == DateTime(now.date, 0)

\* dt + timedelta(days=n), dt - timedelta(days=n) on a datetime
DTPlusDays(dt, n) == DateTime(PlusDays(dt.date, n), dt.tod)

DTMinusDays(dt, n) == DateTime(MinusDays(dt.date, n), dt.tod)

\* dt.replace(day=1)
ReplaceDay1(dt) == DateTime([dt.date EXCEPT !.day = 1], dt.tod)

\* Mode strings are sequences of characters; str.upper() on ASCII text.
LowerLetters ==
    <<"a", "b", "c", "d", "e", "f", "g", "h", "i", "j", "k", "l", "m",
      "n", "o", "p", "q", "r", "s", "t", "u", "v", "w", "x", "y", "z">>

UpperLetters ==
    <<"A", "B", "C", "D", "E", "F", "G", "H", "I", "J", "K", "L", "M",
      "N", "O", "P", "Q", "R", "S", "T", "U", "V", "W", "X", "Y", "Z">>

UpperChar(c) ==
    IF \E i \in DOMAIN LowerLetters : LowerLetters[i] = c
    THEN UpperLetters[CHOOSE i \in DOMAIN LowerLetters : LowerLetters[i] = c]
    ELSE c

Upper(s) == [i \in DOMAIN s |-> UpperChar(s[i])]

DAILY == <<"D", "A", "I", "L", "Y">>
WEEKLY == <<"W", "E", "E", "K", "L", "Y">>
MONTHLY == <<"M", "O", "N", "T", "H", "L", "Y">>
MONTHLY_MTD == <<"M", "O", "N", "T", "H", "L", "Y", "_", "M", "T", "D">>

\* what compute_dates returns or raises
Returned(s, e) == [raised |-> "none", start |-> s, end |-> e]

Raised(x) == [raised |-> x, start |-> NoDateTime, end |-> NoDateTime]

\* mode compared as it is written, without upper()
norm_mode_as_written(mode) == mode

\* mode.upper()
norm_mode(mode) == Upper(mode)

\* DAILY with the end left at midnight of today
daily_window_no_step(midnight_today) == Returned(midnight_today, midnight_today)

\* DAILY: start_date = midnight_today; end_date = midnight_today + timedelta(days=1)
daily_window(midnight_today) == Returned(midnight_today, DTPlusDays(midnight_today, 1))

\* WEEKLY: start_date = midnight_today - timedelta(days=7); end_date = midnight_today
trailing_week_window(midnight_today) == Returned(DTMinusDays(midnight_today, 7), midnight_today)

\* MONTHLY with the start left at the last day of the previous month
prior_month_window_no_replace(midnight_today) ==
    LET first_of_this_month == ReplaceDay1(midnight_today)
    IN Returned(DTMinusDays(first_of_this_month, 1), first_of_this_month)

\* MONTHLY: first_of_this_month = midnight_today.replace(day=1);
\* last_month_end = first_of_this_month - timedelta(days=1);
\* start_date = last_month_end.replace(day=1); end_date = first_of_this_month
prior_month_window(midnight_today) ==
    LET first_of_this_month == ReplaceDay1(midnight_today)
        last_month_end == DTMinusDays(first_of_this_month, 1)
    IN Returned(ReplaceDay1(last_month_end), first_of_this_month)

\* MONTHLY_MTD: start_date = midnight_today.replace(day=1);
\* end_date = midnight_today + timedelta(days=1)
month_to_date_window(midnight_today) ==
    Returned(ReplaceDay1(midnight_today), DTPlusDays(midnight_today, 1))

\* compute_dates of reformatting_test.py
compute_dates(mode, now) ==
    LET midnight_today == Midnight(now)
        m == norm_mode(mode)
    IN IF m = DAILY THEN daily_window(midnight_today)
       ELSE IF m = WEEKLY THEN trailing_week_window(midnight_today)
       ELSE IF m = MONTHLY THEN prior_month_window(midnight_today)
       ELSE IF m = MONTHLY_MTD THEN month_to_date_window(midnight_today)
       ELSE Raised("ValueError")

\* compute_dates of datetest.py: the same without MONTHLY_MTD
compute_dates_datetest(mode, now) ==
    LET midnight_today == Midnight(now)
    IN IF norm_mode(mode) = DAILY THEN daily_window(midnight_today)
       ELSE IF norm_mode(mode) = WEEKLY THEN trailing_week_window(midnight_today)
       ELSE IF norm_mode(mode) = MONTHLY THEN prior_month_window(midnight_today)
       ELSE Raised("ValueError")

\* the mode strings compute_dates is called with: each mode name in four
\* letter cases, and strings that name no mode
LowerChar(c) ==
    IF \E i \in DOMAIN UpperLetters : UpperLetters[i] = c
    THEN LowerLetters[CHOOSE i \in DOMAIN UpperLetters : UpperLetters[i] = c]
    ELSE c

Cased(w, k) ==
    [i \in DOMAIN w |->
        IF k = "upper" THEN w[i]
        ELSE IF k = "lower" THEN LowerChar(w[i])
        ELSE IF k = "title" THEN (IF i = 1 THEN w[i] ELSE LowerChar(w[i]))
        ELSE (IF i % 2 = 0 THEN w[i] ELSE LowerChar(w[i]))]

ModeNames == {DAILY, WEEKLY, MONTHLY, MONTHLY_MTD}

OtherStrings ==
    { <<>>,
      <<"Y", "E", "A", "R", "L", "Y">>,
      <<"D", "A", "I", "L", "Y", " ">>,
      <<"d", "a", "y">>,
      <<"M", "O", "N", "T", "H", "L", "Y", "-", "M", "T", "D">>,
      <<"m", "o", "n", "t", "h", "l", "y", "_">> }

ModeStrings ==
    { Cased(w, k) : w \in ModeNames, k \in {"upper", "lower", "title", "mixed"} }
    \cup OtherStrings

\* compute_dates(mode) of either file, called at any time of any day
ApplyComputeDates ==
    /\ ret.fn = "none"
    /\ \E mode \in ModeStrings, t \in TimesOfDay :
          \/ ret' = [fn |-> "compute_dates",
                     arg |-> [mode |-> mode, now |-> DateTime(today, t)],
                     val |-> compute_dates(mode, DateTime(today, t))]
          \/ ret' = [fn |-> "compute_dates_datetest",
                     arg |-> [mode |-> mode, now |-> DateTime(today, t)],
                     val |-> compute_dates_datetest(mode, DateTime(today, t))]
    /\ UNCHANGED <<cfgVars, fsVars, emails, runs, pc, localVars, endVars, histVars>>

InitDates ==
    /\ today \in FnDates
    /\ year_start_month = 1
    /\ InitFiles
    /\ InitProcs
    /\ ret = NoRet

NextDates == ApplyComputeDates

SpecDates == InitDates /\ [][NextDates]_vars

\* ------------------------------------------------------------------ claims
SubjectBoth == <<"Service Entry Sheet Report", " - Weekly & Monthly">>
SubjectWeekly == <<"Service Entry Sheet Report", " - Weekly">>
SubjectMonthly == <<"Service Entry Sheet Report", " - Monthly">>

\* a Monday, counted from 2025-09-01, which is one
IsMonday(dt) == (ToOrdinal(dt) - ToOrdinal(Date(2025, 9, 1))) % 7 = 0

\* the day before is in another month
IsFirstOfMonth(dt) == MinusDays(dt, 1).month # dt.month

\* p passed the lock check, created the marker and is executing the body of run()
Holds(p) == Live(p) /\ created[p]

\* the emails run r sent
EmailsOf(r) == { i \in DOMAIN emails : emails[i].run = r }

\* the categories attached to email e
Attached(e) == { e.attachments[k].name : k \in DOMAIN e.attachments }

OutcomeClass(o) ==
    IF o = "success" THEN "completed" ELSE IF o = "error" THEN "failed" ELSE "no-op"

\* C1: a run that created the lock marker and then failed at the database
\* connect, a query, a CSV write or the email send has removed the marker when
\* it terminates.
C1_LockReleasedOnFailure ==
    \A p \in Procs :
        (pc[p] = "done" /\ outcome[p] = "error" /\ created[p]
           /\ failedAt[p] \in {"connect", "query", "write", "send"})
        => ~lock

\* C2: a run that created the lock marker and returned on a path where nothing
\* failed (nothing due, every due category already done, email sent) has
\* removed the marker when run() returns.
C2_LockReleasedOnReturn ==
    \A p \in Procs :
        (pc[p] = "done" /\ created[p] /\ outcome[p] \in {"nodue", "nothing", "success"})
        => ~lock

C2_Witness ==
    /\ pc[1] = "done" /\ created[1] /\ outcome[1] = "success" /\ ~lock
    /\ emails # <<>>

\* C3: a run that finds the lock marker at its start returns in that step: it
\* has not connected or queried, has created, replaced or deleted no CSV, temp
\* file or done marker, has sent no email, and the marker is still there.
C3_LockedRunTouchesNothing ==
    /\ [](\A p \in Procs :
            (pc[p] = "done" /\ outcome[p] = "locked")
            => /\ conn[p] = "none" /\ queried[p] = {} /\ wrote[p] = {}
               /\ ~created[p] /\ attachments[p] = <<>> /\ EmailsOf(runId[p]) = {})
    /\ [][\A p \in Procs :
            (pc[p] = "check" /\ lock /\ pc'[p] # "check")
            => /\ pc'[p] = "done" /\ outcome'[p] = "locked"
               /\ lock'
               /\ UNCHANGED <<csv, tmp, done, emails, conn>>]_vars

C3_Witness ==
    /\ pc[1] = "done" /\ outcome[1] = "locked" /\ lock
    /\ prev[1].outcome = "error"

\* C4 (as claimed): with two processes interleaved arbitrarily, at no time
\* have both passed the lock check and are executing the body of run() after
\* creating the marker.
C4_MutualExclusion == ~(Holds(1) /\ Holds(2))

\* C4 (amended): both processes execute the body at once only if a lock check
\* fell between the other process's check and its creation of the marker.
C4_ExclusionUnlessRaced == (Holds(1) /\ Holds(2)) => raced

C4_Witness ==
    /\ Holds(1) /\ pc[1] = "query"
    /\ pc[2] = "done" /\ outcome[2] = "locked"
    /\ ~raced

\* C5: the run after a run that completed successfully on the same day finds
\* every due category already done, queries and writes nothing, has no
\* attachments and sends no email, and returns at "nothing to send" unless its
\* own connect or SQL read fails; over both runs there is one set of artifacts
\* and one email.
C5_SecondRunIdempotent ==
    \A p \in Procs :
        prev[p].outcome = "success"
        => /\ \A i \in DOMAIN Cats :
                 what_is_due(today)[i] => should_skip(csv[Cats[i]], done[Cats[i]])
           /\ queried[p] = {} /\ wrote[p] = {} /\ attachments[p] = <<>>
           /\ EmailsOf(runId[p]) = {}
           /\ Cardinality(EmailsOf(runId[p] - 1)) = 1
           /\ \A c \in CatSet : tmp[c].kind # "complete"
           /\ (pc[p] = "done" /\ outcome[p] # "error" => outcome[p] = "nothing")
           /\ (outcome[p] = "error" => failedAt[p] \in {"connect", "sql"})

C5_Witness ==
    /\ prev[1].outcome = "success" /\ prev[1].wrote = CatSet
    /\ pc[1] = "done" /\ outcome[1] = "nothing"

\* C6: after a run in which the weekly artifact was written and the monthly
\* query failed, the next run on the same day, if nothing fails in it, skips
\* weekly and queries and writes only monthly.
C6_PartialFailureRetried ==
    \A p \in Procs :
        (/\ prev[p].outcome = "error" /\ prev[p].failedAt = "query"
         /\ prev[p].wrote = {"weekly"} /\ prev[p].queried = CatSet
         /\ pc[p] = "done" /\ outcome[p] # "error")
        => (queried[p] = {"monthly"} /\ wrote[p] = {"monthly"})

\* C7: two runs whose outcomes fall in different cases (completed
\* successfully, failed, no-op) end with different exit statuses.
C7_ExitStatusDistinguishes ==
    \A p \in Procs :
        (/\ pc[p] = "done" /\ prev[p].outcome # "none"
         /\ OutcomeClass(prev[p].outcome) # OutcomeClass(outcome[p]))
        => prev[p].exit_status # exit_status[p]

\* C8: the subject of every email says 'Weekly & Monthly' exactly when the
\* run produced both artifacts, 'Weekly' exactly when it produced only the
\* weekly one, 'Monthly' exactly when it produced only the monthly one.
C8_SubjectReflectsProduced ==
    \A i \in DOMAIN emails :
        /\ emails[i].subject = SubjectBoth <=> Attached(emails[i]) = CatSet
        /\ emails[i].subject = SubjectWeekly <=> Attached(emails[i]) = {"weekly"}
        /\ emails[i].subject = SubjectMonthly <=> Attached(emails[i]) = {"monthly"}

\* C9: on a Monday that is the 1st, the first run of the day, when nothing
\* fails, handles weekly and then monthly: monthly is queried only after the
\* weekly artifact is written, and the run ends having produced both
\* artifacts and two sections and sent one email with the two attachments,
\* weekly first, whose subject has 'Weekly & Monthly'.
C9_BothDueInOneRun ==
    (IsMonday(today) /\ today.day = 1 /\ runId[1] = 1)
    => /\ ("monthly" \in queried[1] => "weekly" \in wrote[1])
       /\ (pc[1] = "done" /\ outcome[1] # "error")
          => /\ outcome[1] = "success"
             /\ wrote[1] = CatSet
             /\ \A c \in CatSet : csv[c].kind = "complete" /\ done[c]
             /\ Len(sections[1]) = 2
             /\ sections[1][1].title = <<"Weekly">>
             /\ sections[1][2].title[1] = "Monthly (YTD through "
             /\ Len(emails) = 1
             /\ emails[1].subject = SubjectBoth
             /\ emails[1].sections = sections[1]
             /\ emails[1].attachments =
                  <<[name |-> "weekly", data |-> csv["weekly"]],
                    [name |-> "monthly", data |-> csv["monthly"]]>>

C9_Witness ==
    /\ IsMonday(today) /\ today.day = 1 /\ runId[1] = 1
    /\ pc[1] = "done" /\ outcome[1] = "success"
    /\ Len(emails) = 1 /\ Len(emails[1].attachments) = 2

\* C10: what_is_due returns (weekly_due, monthly_due) with weekly_due true
\* exactly on a Monday and monthly_due true exactly on the first day of a
\* month, for every date.
C10_WhatIsDue ==
    ret.fn = "what_is_due"
    => ret.val = <<IsMonday(ret.arg), IsFirstOfMonth(ret.arg)>>

C10_Witness ==
    /\ ret.fn = "what_is_due" /\ ret.val = <<TRUE, TRUE>>
    /\ ret.arg = Date(2025, 12, 1)

\* C11: every window passed to the query collaborator is non-empty: its start
\* is before its end, on every due date and for every year-start month.
C11_WindowNonEmpty ==
    \A p \in Procs :
        queried[p] # {} => ToOrdinal(win[p][1]) < ToOrdinal(win[p][2])

\* the call whose result ret holds is a call of compute_dates (either file)
IsComputeDates == ret.fn \in {"compute_dates", "compute_dates_datetest"}

\* two strings equal but for the case of their letters
EqIgnoreCase(a, b) ==
    /\ Len(a) = Len(b)
    /\ \A i \in DOMAIN a : LowerChar(a[i]) = LowerChar(b[i])

\* the mode names the called compute_dates knows
KnownModes == IF ret.fn = "compute_dates" THEN ModeNames ELSE ModeNames \ {MONTHLY_MTD}

\* first day of the month before dt's month
FirstOfPreviousMonth(dt) ==
    IF dt.month = 1 THEN Date(dt.year - 1, 12, 1) ELSE Date(dt.year, dt.month - 1, 1)

\* C12: for every reference date and time of day, the MONTHLY window of
\* compute_dates starts at midnight of the first day of the month before the
\* reference month (December of the year before for January) and ends at
\* midnight of the first day of the reference month.
C12_MonthlyIsPriorMonth ==
    (IsComputeDates /\ EqIgnoreCase(ret.arg.mode, MONTHLY))
    => ret.val = Returned(DateTime(FirstOfPreviousMonth(ret.arg.now.date), 0),
                          DateTime(Date(ret.arg.now.date.year, ret.arg.now.date.month, 1), 0))

C12_Witness ==
    /\ IsComputeDates /\ ret.arg.mode = MONTHLY
    /\ ret.arg.now = DateTime(Date(2025, 1, 15), 30600)
    /\ ret.val.start.date = Date(2024, 12, 1)

\* C13: for every reference date d and time of day, the DAILY window of
\* compute_dates starts at midnight of d and ends at midnight of the day
\* after d.
C13_DailyIsToday ==
    (IsComputeDates /\ EqIgnoreCase(ret.arg.mode, DAILY))
    => /\ ret.val.raised = "none"
       /\ ret.val.start = DateTime(ret.arg.now.date, 0)
       /\ ret.val.end.tod = 0
       /\ ret.val.end.date \in ValidDates
       /\ ToOrdinal(ret.val.end.date) = ToOrdinal(ret.arg.now.date) + 1

C13_Witness ==
    /\ IsComputeDates /\ ret.arg.mode = DAILY
    /\ ret.arg.now = DateTime(Date(2024, 2, 28), 86399)
    /\ ret.val.end = DateTime(Date(2024, 2, 29), 0)

\* C19: compute_dates raises the invalid-mode error, and returns no window,
\* exactly for the mode strings that are no known mode name in any letter
\* case; a mode name in any letter case gives the window of its upper-case
\* form.
C19_InvalidModeRejected ==
    IsComputeDates
    => LET known == { w \in KnownModes : EqIgnoreCase(ret.arg.mode, w) }
       IN /\ (known = {}) <=> (ret.val = Raised("ValueError"))
          /\ (known = {}) <=> (ret.val.raised # "none")
          /\ \A w \in known :
                ret.val = (IF ret.fn = "compute_dates"
                           THEN compute_dates(w, ret.arg.now)
                           ELSE compute_dates_datetest(w, ret.arg.now))

C19_Witness ==
    /\ ret.fn = "compute_dates_datetest"
    /\ ret.arg.mode = <<"D", "A", "I", "L", "Y", " ">>
    /\ ret.val = Raised("ValueError")


\* C14: the final path never holds a partially written file, and when the process
\* dies in write_csv after to_csv(temp) and before os.replace, the category's final
\* file and done marker are both absent (the data sits in the temp file only), so
\* should_skip is false for it.
C14_AtomicWrite ==
    /\ \A c \in CatSet : csv[c] # Partial
    /\ \A p \in Procs :
         (pc[p] = "done" /\ outcome[p] = "crashed" /\ failedAt[p] = "replace") =>
            LET c == Cats[idx[p]]
            IN /\ csv[c] = Absent
               /\ ~done[c]
               /\ ~should_skip(csv[c], done[c])

C14_Witness ==
    \E p \in Procs :
       /\ pc[p] = "done" /\ outcome[p] = "crashed" /\ failedAt[p] = "replace"
       /\ tmp[Cats[idx[p]]] = Complete(df[p])
       /\ ~should_skip(csv[Cats[idx[p]]], done[Cats[idx[p]]])

\* C15: when write_csv raises at any of its three steps (to_csv, os.replace, the
\* done-marker write), should_skip is false for that category afterwards.
C15_FailedWriteNotDone ==
    \A p \in Procs :
       (pc[p] = "done" /\ outcome[p] = "error" /\ failedAt[p] = "write") =>
          ~should_skip(csv[Cats[idx[p]]], done[Cats[idx[p]]])

\* C16: the step in which email.send raises changes no CSV, temp file or done marker,
\* and once the run has ended on the send failure every category it wrote still has
\* its complete CSV and its done marker on disk.
C16_SendFailureKeepsArtifacts ==
    /\ [][\A p \in Procs :
            (pc[p] = "decide" /\ pc'[p] = "done" /\ failedAt'[p] = "send") =>
               (csv' = csv /\ tmp' = tmp /\ done' = done)]_vars
    /\ [](\A p \in Procs :
            (pc[p] = "done" /\ outcome[p] = "error" /\ failedAt[p] = "send") =>
               \A c \in wrote[p] : csv[c].kind = "complete" /\ done[c])

C16_Witness ==
    \E p \in Procs :
       /\ pc[p] = "done" /\ outcome[p] = "error" /\ failedAt[p] = "send"
       /\ wrote[p] = CatSet
       /\ EmailsOf(runId[p]) = {}
       /\ \A c \in CatSet : csv[c].kind = "complete" /\ done[c]

\* C17: a run whose db.connect() raised ends there: as long as a run has no open
\* connection it has executed no query, written no file and sent no email; the run
\* that failed at connect has an empty report; and no step up to and including the
\* connect changes a CSV, temp file, done marker or the mail sent.
C17_ConnectFailureAborts ==
    /\ [](\A p \in Procs :
            /\ conn[p] = "none" =>
                  /\ queried[p] = {} /\ wrote[p] = {}
                  /\ attachments[p] = <<>> /\ sections[p] = <<>>
                  /\ EmailsOf(runId[p]) = {}
            /\ (pc[p] = "done" /\ outcome[p] = "error" /\ failedAt[p] = "connect") =>
                  conn[p] = "none")
    /\ [][\A p \in Procs :
            (pc[p] \in {"check", "create", "connect"} /\ pc'[p] # pc[p]) =>
               (csv' = csv /\ tmp' = tmp /\ done' = done /\ emails' = emails)]_vars

C17_Witness ==
    \E p \in Procs :
       /\ pc[p] = "done" /\ outcome[p] = "error" /\ failedAt[p] = "connect"
       /\ due[p] # <<FALSE, FALSE>>
       /\ queried[p] = {}
       /\ \A c \in CatSet : csv[c] = Absent /\ tmp[c] = Absent /\ ~done[c]
       /\ emails = <<>>

\* C18: should_skip is true exactly when the final CSV exists or the done marker
\* exists, and the step of run() that tests a due category goes on to the query
\* exactly when neither exists (otherwise it passes the category over); a category
\* is queried only if it is due.
C18_SkipIffFileOrMarker ==
    /\ [](\A f \in {Absent, Partial} \cup {Complete(n) : n \in 0..MaxRows}, m \in BOOLEAN :
            should_skip(f, m) <=> (f # Absent \/ m))
    /\ [](\A p \in Procs : \A i \in DOMAIN Cats : Cats[i] \in queried[p] => due[p][i])
    /\ [][\A p \in Procs :
            (/\ pc[p] = "decide" /\ idx[p] <= Len(Cats) /\ due[p][idx[p]]
             /\ pc'[p] \in {"decide", "query"}) =>
               LET c == Cats[idx[p]]
               IN /\ pc'[p] = "query" <=> (csv[c] = Absent /\ ~done[c])
                  /\ pc'[p] = "decide" => idx'[p] = idx[p] + 1 /\ queried'[p] = queried[p]]_vars

\* both categories due, the weekly CSV deleted with its marker left behind, the
\* monthly CSV present without a marker: the run passes over both
C18_Witness ==
    \E p \in Procs :
       /\ pc[p] = "done" /\ outcome[p] = "nothing"
       /\ due[p] = <<TRUE, TRUE>>
       /\ queried[p] = {}
       /\ csv["weekly"] = Absent /\ done["weekly"]
       /\ csv["monthly"] # Absent /\ ~done["monthly"]

\* the categories of set S in the order weekly, monthly
InOrder(S) == SelectSeq(Cats, LAMBDA c : c \in S)

\* the title run() gives the section of category c
IsSectionOf(s, c) ==
    IF c = "weekly" THEN s.title = <<"Weekly">> ELSE s.title[1] = "Monthly (YTD through "

\* C20: no run has sent more than one email; a run that produced nothing has sent
\* none; and the email of a run carries one attachment and one section for each
\* category the run wrote, weekly before monthly, and nothing else.
C20_OneEmailPerProducingRun ==
    /\ \A r \in 1..runs : Cardinality(EmailsOf(r)) <= 1
    /\ \A i \in DOMAIN emails :
          LET e == emails[i]
              names == [k \in DOMAIN e.attachments |-> e.attachments[k].name]
          IN /\ Len(e.attachments) >= 1
             /\ Len(e.sections) = Len(e.attachments)
             /\ \A k \in DOMAIN names : IsSectionOf(e.sections[k], names[k])
             /\ \A p \in Procs : runId[p] = e.run => names = InOrder(wrote[p])
    /\ \A p \in Procs :
          /\ wrote[p] = {} => EmailsOf(runId[p]) = {}
          /\ \A i \in DOMAIN Cats :
                Cats[i] \in wrote[p] => due[p][i] /\ Cats[i] \in queried[p]

C20_Witness ==
    \E i \in DOMAIN emails, p \in Procs :
       /\ runId[p] = emails[i].run
       /\ pc[p] = "done" /\ outcome[p] = "success"
       /\ due[p] = <<TRUE, TRUE>>
       /\ wrote[p] = {"monthly"}
       /\ Len(emails[i].attachments) = 1
       /\ emails[i].attachments[1].name = "monthly"

\* the due dates of category number i
DueDates(i) == { d \in FnDates : what_is_due(d)[i] }

\* the half-open windows [w[1], w[2]) and [v[1], v[2]) share an instant
Overlap(w, v) ==
    LET lo == IF ToOrdinal(w[1]) >= ToOrdinal(v[1]) THEN ToOrdinal(w[1]) ELSE ToOrdinal(v[1])
        hi == IF ToOrdinal(w[2]) <= ToOrdinal(v[2]) THEN ToOrdinal(w[2]) ELSE ToOrdinal(v[2])
    IN lo < hi

\* the window w lies inside the window v
Within(w, v) == ToOrdinal(v[1]) <= ToOrdinal(w[1]) /\ ToOrdinal(w[2]) <= ToOrdinal(v[2])

\* C21 (as stated): the window a category gets on a due date overlaps the window it
\* gets on no other due date, and the weekly window is the seven days up to today,
\* the windows of consecutive Mondays meeting end to start.
C21_WindowsDisjoint ==
    /\ ret.fn = "weekly_window" =>
          /\ ret.val = <<MinusDays(ret.arg, 7), ret.arg>>
          /\ weekly_window(PlusDays(ret.arg, 7))[1] = ret.val[2]
          /\ \A d \in DueDates(1) \ {ret.arg} : ~Overlap(ret.val, weekly_window(d))
    /\ ret.fn = "monthly_window" =>
          \A d \in DueDates(2) \ {ret.arg} :
             ~Overlap(ret.val, monthly_window(d, year_start_month))

\* C21 (amended): the weekly part as stated; the monthly windows of two due dates
\* of one calendar year start at the same day, so the earlier date's window lies
\* inside the later date's and they overlap whenever the earlier one is not empty;
\* monthly windows of different calendar years do not overlap.
C21_WeeklyDisjointMonthlyNested ==
    /\ ret.fn = "weekly_window" =>
          /\ ret.val = <<MinusDays(ret.arg, 7), ret.arg>>
          /\ weekly_window(PlusDays(ret.arg, 7))[1] = ret.val[2]
          /\ \A d \in DueDates(1) \ {ret.arg} : ~Overlap(ret.val, weekly_window(d))
    /\ ret.fn = "monthly_window" =>
          \A d \in DueDates(2) \ {ret.arg} :
             LET v == monthly_window(d, year_start_month)
             IN IF d.year # ret.arg.year
                THEN ~Overlap(ret.val, v)
                ELSE /\ v[1] = ret.val[1]
                     /\ ToOrdinal(ret.arg) < ToOrdinal(d) => Within(ret.val, v)
                     /\ (ToOrdinal(ret.arg) < ToOrdinal(d)
                           /\ ToOrdinal(ret.val[1]) < ToOrdinal(ret.val[2]))
                        => Overlap(ret.val, v)

\* the monthly window of 1 February overlaps the one of 1 March
C21_Witness ==
    /\ ret.fn = "monthly_window"
    /\ year_start_month = 1
    /\ ret.arg.month = 2
    /\ Overlap(ret.val, monthly_window([ret.arg EXCEPT !.month = 3], year_start_month))

\* C22: through runs of the orchestrator alone, a category whose done marker exists
\* has its final CSV; a done marker appears only in a step of write_csv that finds
\* the final CSV already in place; and the final path only ever receives a
\* completely written temp file, which leaves the temp path in the same step.
C22_MarkerAfterWrite ==
    /\ [](\A c \in CatSet : (done[c] => Exists(csv[c])) /\ csv[c] # Partial)
    /\ [][\A c \in CatSet :
            /\ (done'[c] /\ ~done[c]) =>
                  (Exists(csv[c]) /\ csv'[c] = csv[c] /\
                   \E p \in Procs : pc[p] = "marker" /\ Cats[idx[p]] = c)
            /\ csv'[c] # csv[c] =>
                  (tmp[c].kind = "complete" /\ csv'[c] = tmp[c] /\ tmp'[c] = Absent)]_vars

C22_Witness ==
    \E p \in Procs :
       /\ pc[p] = "done" /\ outcome[p] = "error" /\ failedAt[p] = "write"
       /\ wrote[p] = {"weekly"}
       /\ done["weekly"] /\ csv["weekly"].kind = "complete"
       /\ tmp["monthly"] = Partial /\ ~done["monthly"] /\ csv["monthly"] = Absent

\* the marker is on disk and no run that created it is still executing
Stale == lock /\ \A p \in Procs : ~Holds(p)

\* C23: a stale marker goes away only in a step in which no run moves (it is removed
\* from outside); while it is there it stays stale, every run in progress is at its
\* lock check, and no step queries, writes a CSV, temp file or done marker, or sends
\* an email; and a marker is only ever removed by a run that created it or from
\* outside.
C23_StaleLockBlocksRuns ==
    /\ [](Stale => \A p \in Procs : Live(p) => pc[p] = "check")
    /\ [][Stale =>
            /\ ~lock' => \A p \in Procs : pc'[p] = pc[p]
            /\ lock' => Stale'
            /\ UNCHANGED <<csv, tmp, done, emails>>
            /\ \A p \in Procs : queried'[p] \subseteq queried[p] /\ wrote'[p] \subseteq wrote[p]]_vars
    /\ [][(lock /\ ~lock') =>
            \/ \A p \in Procs : pc'[p] = pc[p]
            \/ \E p \in Procs : created[p] /\ Live(p) /\ pc'[p] = "done"]_vars

\* the first run left the marker behind and the two runs after it ended at the check
C23_Witness ==
    /\ Stale
    /\ runs = 3
    /\ pc[1] = "done" /\ outcome[1] = "locked"
    /\ prev[1].outcome = "locked"
    /\ emails = <<>>

\* the CSV of category c is on disk, no email carries it, and no run in progress
\* has written it
Orphaned(c) ==
    /\ Exists(csv[c])
    /\ \A i \in DOMAIN emails : c \notin Attached(emails[i])
    /\ \A p \in Procs : Live(p) => c \notin wrote[p]

\* C24: a run that wrote a category's CSV and then raised has left it on disk with
\* no email carrying it; from then on the CSV stays unsent: no later run queries
\* or writes the category, and no email ever attaches it.
C24_UnsentArtifactNeverEmailed ==
    /\ [](\A p \in Procs : \A c \in CatSet :
            /\ (pc[p] = "done" /\ outcome[p] = "error" /\ c \in wrote[p]) => Orphaned(c)
            /\ (Orphaned(c) /\ Live(p)) => c \notin queried[p] \cup wrote[p])
    /\ [][\A c \in CatSet : Orphaned(c) => Orphaned(c)' /\ csv'[c] = csv[c]]_vars

\* the first run wrote the weekly CSV and failed; the next run passed it over and
\* mailed the monthly CSV alone
C24_Witness ==
    \E p \in Procs :
       /\ pc[p] = "done" /\ outcome[p] = "success"
       /\ prev[p].outcome = "error" /\ "weekly" \in prev[p].wrote
       /\ due[p] = <<TRUE, TRUE>>
       /\ queried[p] = {"monthly"}
       /\ Len(emails) = 1 /\ Attached(emails[1]) = {"monthly"}
       /\ Orphaned("weekly")
=============================================================================
